---- MODULE Spec2Model ----
(***************************************************************************)
(* Model of the timeframe crate (src/src/lib.rs, src/src/ext.rs).          *)
(*                                                                         *)
(* A DateTime<Utc> is an integer count of sub-second ticks; SubPerSec      *)
(* ticks make one second.  The calendar fields the crate reads and writes  *)
(* (minute, second, sub-second fraction) are extracted from that count the *)
(* way chrono's Timelike does for UTC.                                     *)
(***************************************************************************)
EXTENDS Integers, Sequences, FiniteSets

VARIABLES op, t, window, ret, frame, pc, aligned, sw, curr, time_frames, even, nav

vars == <<op, t, window, ret, frame, pc, aligned, sw, curr, time_frames, even, nav>>

(* ------------------------------ bounds -------------------------------- *)

\* resolution of the sub-second fraction (chrono: 10^9 nanoseconds)
SubPerSec == 2
\* the timestamps tried lie in the hours 9 .. 9 + MaxHour
MaxHour == 1
\* raw windows tried: 0 .. MaxWindow (TimeWindow is a u32)
MaxWindow == 61
\* number of next / prev / align steps applied to one EvenTimeframe
MaxNav == 3

(* --------------------------- time arithmetic -------------------------- *)

TicksPerMin == 60 * SubPerSec
TicksPerHour == 60 * TicksPerMin

\* Timelike::minute / second and the sub-second fraction of a DateTime
Minute(x) == (x \div TicksPerMin) % 60
Second(x) == (x \div SubPerSec) % 60
SubSec(x) == x % SubPerSec

\* chrono::Duration::minutes(n) and TimeDelta::hours(n), in ticks
Minutes(n) == n * TicksPerMin
Hours(n) == n * TicksPerHour

None == [kind |-> "None"]
Some(x) == [kind |-> "Some", val |-> x]
Panic == [kind |-> "Panic"]

\* Timelike::with_minute: only the minute field changes; None for minute >= 60
WithMinute(x, m) ==
    IF m >= 60 THEN None ELSE Some(x - Minutes(Minute(x)) + Minutes(m))

\* Timelike::with_second: only the second field changes, the sub-second
\* fraction is kept; None for second >= 60
WithSecond(x, s) ==
    IF s >= 60 THEN None ELSE Some(x - Second(x) * SubPerSec + s * SubPerSec)

\* DateTime::checked_add_signed (overflows only at the ends of chrono's range)
CheckedAddSigned(x, d) == Some(x + d)

\* integer division truncating toward zero, as TimeDelta::num_* do
TruncDiv(a, b) == IF a >= 0 THEN a \div b ELSE -((-a) \div b)
NumMinutes(d) == TruncDiv(d, TicksPerMin)
NumWeeks(d) == TruncDiv(d, 7 * 24 * TicksPerHour)
Weeks(n) == n * 7 * 24 * TicksPerHour

\* u32::clamp and u32::abs_diff, u32::div_ceil
Clamp(x, lo, hi) == IF x < lo THEN lo ELSE IF x > hi THEN hi ELSE x
AbsDiff(a, b) == IF a >= b THEN a - b ELSE b - a
\* mutants of div_ceil: rounding down, and always stepping up
DivCeil_down(a, b) == a \div b
DivCeil_up(a, b) == (a \div b) + 1
DivCeil(a, b) == (a + b - 1) \div b

(* ------------------------------ ext.rs -------------------------------- *)

\* clamp_window: the remainder is taken first (a zero window divides by
\* zero, which panics), the clamp is applied to what passed
clamp_window(w) ==
    IF w = 0 THEN Panic
    ELSE IF 60 % w # 0 THEN None
    ELSE Some(Clamp(w, 1, 60))

\* prep_time: the clamped window and the minute of the timestamp
prep_time(x, w) ==
    LET c == clamp_window(w) IN
    IF c.kind # "Some" THEN c
    ELSE [kind |-> "Some", window |-> c.val, minute |-> Minute(x)]

closest_floor(x, w) ==
    LET p == prep_time(x, w) IN
    IF p.kind # "Some" THEN p
    ELSE LET cf == (p.minute \div p.window) * p.window
             m  == WithMinute(x, cf)
         IN IF m.kind # "Some" THEN m ELSE WithSecond(m.val, 0)

closest_ceil(x, w) ==
    LET p == prep_time(x, w) IN
    IF p.kind # "Some" THEN p
    ELSE LET cc == DivCeil(p.minute, p.window) * p.window IN
         IF cc >= 60
         THEN LET a == CheckedAddSigned(x, Hours(1)) IN
              IF a.kind # "Some" THEN a
              ELSE LET m == WithMinute(a.val, 0) IN
                   IF m.kind # "Some" THEN m ELSE WithSecond(m.val, 0)
         ELSE LET m == WithMinute(x, cc) IN
              IF m.kind # "Some" THEN m ELSE WithSecond(m.val, 0)

(* ------------------------------ lib.rs -------------------------------- *)

FACTORS_60 == <<1, 2, 3, 4, 5, 6, 10, 12, 15, 20, 30, 60>>

\* mutant of min_by_key: the last of several minima wins
RECURSIVE MinByKey_last(_, _, _, _)
MinByKey_last(s, i, best, x) ==
    IF i > Len(s) THEN best
    ELSE MinByKey_last(s, i + 1,
                       IF AbsDiff(x, s[i]) <= AbsDiff(x, best) THEN s[i] ELSE best, x)

\* Iterator::min_by_key: a later element replaces the best one only when its
\* key is strictly smaller, so the first of several minima is returned
RECURSIVE MinByKey(_, _, _, _)
MinByKey(s, i, best, x) ==
    IF i > Len(s) THEN best
    ELSE MinByKey(s, i + 1,
                  IF AbsDiff(x, s[i]) < AbsDiff(x, best) THEN s[i] ELSE best, x)

closest_factor_of_60(w) ==
    LET c == Clamp(w, 0, 60) IN MinByKey(FACTORS_60, 2, FACTORS_60[1], c)

Timeframe(s, e) == [start |-> s, end |-> e]
EvenTimeframe(s, e, w) == [frame |-> Timeframe(s, e), window |-> w]

\* EvenTimeframe::align: None leaves the value as it is
align(ev) ==
    LET f == closest_floor(ev.frame.start, ev.window) IN
    IF f.kind # "Some" THEN ev
    ELSE EvenTimeframe(f.val, f.val + Minutes(ev.window), ev.window)

new(start, w) ==
    LET cw == closest_factor_of_60(w) IN
    align(EvenTimeframe(start, start + Minutes(cw), cw))

prev(ev) ==
    EvenTimeframe(ev.frame.start - Minutes(ev.window), ev.frame.start, ev.window)

next(ev) ==
    EvenTimeframe(ev.frame.end, ev.frame.end + Minutes(ev.window), ev.window)

\* split refuses a range whose aligned length reaches this many weeks
FrameLimitWeeks == 15

\* mutant of the size check: exactly 15 weeks passes
frame_too_large_gt(delta) == NumWeeks(delta) > FrameLimitWeeks
\* the size check of split
frame_too_large(delta) == NumWeeks(delta) >= FrameLimitWeeks

Err(e, m) == [kind |-> "Err", err |-> e, msg |-> m]

\* EvenTimeframe::split up to the loop: the window check, the alignment of
\* both ends and the two range checks.  kind "Walk" enters the loop.
split_prepare(fr, w) ==
    LET c == clamp_window(w) IN
    IF c.kind = "Panic" THEN Panic
    ELSE IF c.kind = "None" THEN Err("Other", "window")
    ELSE LET fs == closest_floor(fr.start, c.val) IN
         IF fs.kind # "Some" THEN Err("Floor", "")
         ELSE LET fe == closest_ceil(fr.end, c.val) IN
              IF fe.kind # "Some" THEN Err("Ceil", "")
              ELSE LET delta == fe.val - fs.val IN
                   IF frame_too_large(delta)
                   THEN Err("FrameTooLarge", "")
                   ELSE IF NumMinutes(delta) <= 0 THEN Err("Other", "range")
                   ELSE [kind |-> "Walk", window |-> c.val,
                         frame |-> Timeframe(fs.val, fe.val)]

\* mutant of the loop test: one pass too many when curr reaches the end
walk_continues_le(c, fr) == c <= fr.end
\* the loop test of split
walk_continues(c, fr) == c < fr.end

\* the frame the loop body pushes
walk_frame(c, w) == EvenTimeframe(c, c + Minutes(w), w)

(* ------------------------------ inputs -------------------------------- *)

Stamp(h, m, s, f) == Hours(h) + Minutes(m) + s * SubPerSec + f

Fractions == 0 .. (SubPerSec - 1)
HourInputs == 9 .. (9 + MaxHour)
SecInputs == {0, 12, 59}
Windows == 0 .. MaxWindow

TimeInputs ==
    {Stamp(h, m, s, f) : h \in HourInputs, m \in 0 .. 59, s \in SecInputs, f \in Fractions}

SplitMinutes == {0, 7, 15, 16, 59}
SplitSecs == {0, 12}
SplitStarts ==
    {Stamp(9, m, s, f) : m \in SplitMinutes, s \in SplitSecs, f \in Fractions}
SplitEnds ==
    {Stamp(h, m, s, f) : h \in HourInputs, m \in SplitMinutes, s \in SplitSecs, f \in Fractions}

\* ranges around the 15 week limit, split with a 60 minute window
LargeStarts == {Stamp(9, 0, 0, f) : f \in Fractions}
LargeEnds ==
    {Weeks(FrameLimitWeeks) + Stamp(8, 0, 0, 0), Weeks(FrameLimitWeeks) + Stamp(9, 1, 0, 0)}
    \cup {Weeks(FrameLimitWeeks) + Stamp(9, 0, 0, f) : f \in Fractions}
LargeWindows == {60}

SplitInputs ==
    {<<Timeframe(s, e), w>> : s \in SplitStarts, e \in SplitEnds, w \in Windows}
    \cup {<<Timeframe(s, e), w>> : s \in LargeStarts, e \in LargeEnds, w \in LargeWindows}

(* ------------------------------ state --------------------------------- *)

NoFrame == Timeframe(0, 0)

Init ==
    /\ op = "idle"
    /\ t = 0
    /\ window = 0
    /\ ret = None
    /\ frame = NoFrame
    /\ pc = "idle"
    /\ aligned = NoFrame
    /\ sw = 0
    /\ curr = 0
    /\ time_frames = <<>>
    /\ even = None
    /\ nav = 0

SplitIdle == <<frame, pc, aligned, sw, curr, time_frames>>

\* a call of one of the pure functions on fresh arguments
Call(name, x, w, r) ==
    /\ op' = name
    /\ t' = x
    /\ window' = w
    /\ ret' = r
    /\ UNCHANGED <<SplitIdle, even, nav>>

CallClampWindow ==
    /\ op = "idle"
    /\ \E w \in Windows : Call("clamp_window", 0, w, clamp_window(w))

CallClosestFloor ==
    /\ op = "idle"
    /\ \E x \in TimeInputs, w \in Windows : Call("closest_floor", x, w, closest_floor(x, w))

CallClosestCeil ==
    /\ op = "idle"
    /\ \E x \in TimeInputs, w \in Windows : Call("closest_ceil", x, w, closest_ceil(x, w))

CallClosestFactor ==
    /\ op = "idle"
    /\ \E w \in Windows : Call("closest_factor_of_60", 0, w, Some(closest_factor_of_60(w)))

CallNew ==
    /\ op = "idle"
    /\ \E x \in TimeInputs, w \in Windows :
          /\ t' = x
          /\ window' = w
          /\ even' = Some(new(x, w))
    /\ op' = "new"
    /\ UNCHANGED <<ret, SplitIdle, nav>>

\* next / prev / align on the EvenTimeframe at hand
Navigate(name, ev) ==
    /\ even.kind = "Some"
    /\ nav < MaxNav
    /\ op' = name
    /\ even' = Some(ev)
    /\ nav' = nav + 1
    /\ t' = 0
    /\ window' = 0
    /\ UNCHANGED <<ret, SplitIdle>>

CallNext == even.kind = "Some" /\ Navigate("next", next(even.val))

CallPrev == even.kind = "Some" /\ Navigate("prev", prev(even.val))

CallAlign == even.kind = "Some" /\ Navigate("align", align(even.val))

\* split, from its entry to the first loop test
SplitBegin ==
    /\ op = "idle"
    /\ \E in \in SplitInputs :
          LET p == split_prepare(in[1], in[2]) IN
          /\ frame' = in[1]
          /\ window' = in[2]
          /\ IF p.kind = "Walk"
             THEN /\ pc' = "walk"
                  /\ ret' = None
                  /\ aligned' = p.frame
                  /\ sw' = p.window
                  /\ curr' = p.frame.start
             ELSE /\ pc' = "done"
                  /\ ret' = p
                  /\ aligned' = NoFrame
                  /\ sw' = 0
                  /\ curr' = 0
    /\ op' = "split"
    /\ time_frames' = <<>>
    /\ UNCHANGED <<t, even, nav>>

\* one pass of the loop body
SplitStep ==
    /\ pc = "walk"
    /\ walk_continues(curr, aligned)
    /\ time_frames' = Append(time_frames, walk_frame(curr, sw))
    /\ curr' = curr + Minutes(sw)
    /\ UNCHANGED <<op, t, window, ret, frame, pc, aligned, sw, even, nav>>

\* the loop test fails: split returns Ok(time_frames)
SplitReturn ==
    /\ pc = "walk"
    /\ ~walk_continues(curr, aligned)
    /\ pc' = "done"
    /\ ret' = [kind |-> "Ok"]
    /\ UNCHANGED <<op, t, window, frame, aligned, sw, curr, time_frames, even, nav>>

\* the caller takes one element of the returned vector
TakeFrame ==
    /\ pc = "done"
    /\ ret.kind = "Ok"
    /\ \E i \in 1 .. Len(time_frames) : even' = Some(time_frames[i])
    /\ op' = "take"
    /\ pc' = "idle"
    /\ ret' = None
    /\ frame' = NoFrame
    /\ aligned' = NoFrame
    /\ sw' = 0
    /\ curr' = 0
    /\ time_frames' = <<>>
    /\ window' = 0
    /\ UNCHANGED <<t, nav>>

Next ==
    \/ CallClampWindow
    \/ CallClosestFloor
    \/ CallClosestCeil
    \/ CallClosestFactor
    \/ CallNew
    \/ CallNext
    \/ CallPrev
    \/ CallAlign
    \/ SplitBegin
    \/ SplitStep
    \/ SplitReturn
    \/ TakeFrame

Spec == Init /\ [][Next]_vars

(* ------------------------------ claims -------------------------------- *)

Divides60(w) == w \in 1 .. 60 /\ 60 % w = 0
SplitOk == op = "split" /\ pc = "done" /\ ret.kind = "Ok"
First == time_frames[1]
Last == time_frames[Len(time_frames)]
\* the aligned bounds of the range being split, for a window dividing 60
FloorOfStart == closest_floor(frame.start, window).val
CeilOfEnd == closest_ceil(frame.end, window).val

\* C1: for every window dividing 60 and every timestamp t,
\* closest_floor(t, w) <= t <= closest_ceil(t, w), and both results have a
\* zero seconds component.
C1_FloorBelowCeilAbove ==
    /\ (op = "closest_floor" /\ Divides60(window)) =>
          (ret.kind = "Some" /\ ret.val <= t /\ Second(ret.val) = 0)
    /\ (op = "closest_ceil" /\ Divides60(window)) =>
          (ret.kind = "Some" /\ t <= ret.val /\ Second(ret.val) = 0)

\* C2: the frames a successful split returns are ordered, pairwise contiguous
\* and non-overlapping, and cover the input range: the first starts at or
\* before frame.start and the last ends at or after frame.end.
C2_SplitCovers ==
    SplitOk =>
       /\ Len(time_frames) >= 1
       /\ \A i \in 1 .. Len(time_frames) :
             time_frames[i].frame.start < time_frames[i].frame.end
       /\ \A i \in 1 .. (Len(time_frames) - 1) :
             time_frames[i].frame.end = time_frames[i + 1].frame.start
       /\ First.frame.start <= frame.start
       /\ Last.frame.end >= frame.end

\* the three invariants of an EvenTimeframe
EvenInvariant(ev) ==
    /\ ev.window \in {1, 2, 3, 4, 5, 6, 10, 12, 15, 20, 30, 60}
    /\ Minute(ev.frame.start) % ev.window = 0
    /\ Second(ev.frame.start) = 0
    /\ SubSec(ev.frame.start) = 0
    /\ ev.frame.end = ev.frame.start + Minutes(ev.window)

\* C3: every EvenTimeframe obtained from new, from a successful split or from
\* next / prev / align applied to such a value has a start whose minute is a
\* multiple of the window and whose second and sub-second parts are 0, an end
\* exactly window minutes after the start, and a window that divides 60.
C3_EvenInvariants ==
    /\ even.kind = "Some" => EvenInvariant(even.val)
    /\ SplitOk => \A i \in 1 .. Len(time_frames) : EvenInvariant(time_frames[i])

\* C4 as stated: the first element of a successful split equals
\* new(floor(frame.start), w) and the last equals new(ceil(frame.end), w).
C4_Original ==
    SplitOk =>
       /\ First = new(FloorOfStart, window)
       /\ Last = new(CeilOfEnd, window)

\* C4 amended: the first element of a successful split equals
\* new(floor(frame.start), w); the last element has window w, starts strictly
\* before ceil(frame.end) and ends at or after it, and it equals
\* new(ceil(frame.end), w).prev() when frame.start and frame.end carry the
\* same sub-second fraction.
C4_FirstAndLast ==
    SplitOk =>
       /\ First = new(FloorOfStart, window)
       /\ Last.window = window
       /\ Last.frame.end = Last.frame.start + Minutes(window)
       /\ Last.frame.start < CeilOfEnd
       /\ CeilOfEnd <= Last.frame.end
       /\ SubSec(frame.start) = SubSec(frame.end) =>
             Last = prev(new(CeilOfEnd, window))

C4_Witness ==
    /\ SplitOk
    /\ Len(time_frames) >= 2
    /\ SubSec(frame.start) = SubSec(frame.end)
    /\ Last = prev(new(CeilOfEnd, window))
    /\ Last # new(CeilOfEnd, window)

\* C5 as stated: the first element of a successful split equals
\* new(frame.start, w) and the last equals new(frame.end, w), on the raw ends.
C5_Original ==
    SplitOk =>
       /\ First = new(frame.start, window)
       /\ Last = new(frame.end, window)

\* C5 amended: the first element of a successful split equals
\* new(frame.start, w); the last equals new(frame.end, w) provided the minute
\* of frame.end is not a multiple of w and frame.start and frame.end carry the
\* same sub-second fraction.
C5_RawEnds ==
    SplitOk =>
       /\ First = new(frame.start, window)
       /\ (Minute(frame.end) % window # 0 /\ SubSec(frame.start) = SubSec(frame.end)) =>
             Last = new(frame.end, window)

C5_Witness ==
    /\ SplitOk
    /\ window = 5
    /\ Minute(frame.start) = 15 /\ Second(frame.start) = 12
    /\ Minute(frame.end) = 16 /\ Second(frame.end) = 12
    /\ SubSec(frame.start) = SubSec(frame.end)
    /\ First = new(frame.start, window)
    /\ Last = new(frame.end, window)

\* C6: the validator clamps the window into [1,60] and only then tests
\* divisibility: it yields clamp(w,1,60) when that divides 60 (0 gives 1,
\* anything above 60 gives 60) and no window otherwise; closest_floor,
\* closest_ceil and split return a failure value and never abort.
C6_ClampThenTest ==
    /\ op = "clamp_window" =>
          ret = IF 60 % Clamp(window, 1, 60) = 0
                THEN Some(Clamp(window, 1, 60)) ELSE None
    /\ op \in {"closest_floor", "closest_ceil", "split"} => ret.kind # "Panic"

\* C7: on a timestamp whose seconds are 0 and whose minute is a multiple of
\* a window dividing 60, closest_floor and closest_ceil both return the
\* timestamp itself.
C7_Idempotent ==
    (/\ op \in {"closest_floor", "closest_ceil"}
     /\ Divides60(window)
     /\ Second(t) = 0
     /\ Minute(t) % window = 0) => ret = Some(t)

C7_Witness ==
    /\ op = "closest_ceil"
    /\ window = 60
    /\ Minute(t) = 0
    /\ Second(t) = 0
    /\ ret = Some(t)

\* the member of the ordered set nearest to w clamped to [0,60], the earlier
\* one of two equidistant members
IsNearestFactor(r, w) ==
    LET c == IF w > 60 THEN 60 ELSE w IN
    \E i \in 1 .. Len(FACTORS_60) :
       /\ r = FACTORS_60[i]
       /\ \A j \in 1 .. Len(FACTORS_60) : AbsDiff(c, r) <= AbsDiff(c, FACTORS_60[j])
       /\ \A j \in 1 .. (i - 1) : AbsDiff(c, r) < AbsDiff(c, FACTORS_60[j])

\* C8: closest_factor_of_60(w), and so the window of new(t, w), is always the
\* member of {1,2,3,4,5,6,10,12,15,20,30,60} with the smallest absolute
\* difference to w clamped to [0,60], the earlier member on a tie.
C8_NearestFactor ==
    /\ op = "closest_factor_of_60" =>
          (ret.kind = "Some" /\ IsNearestFactor(ret.val, window))
    /\ op = "new" => IsNearestFactor(even.val.window, window)

C8_Witness ==
    /\ op = "closest_factor_of_60"
    /\ window = 8
    /\ ret = Some(6)
    /\ AbsDiff(8, 6) = AbsDiff(8, 10)

\* C9: for a window dividing 60, split fails with FrameTooLarge exactly when
\* ceil(end) - floor(start) is 15 weeks or more, and a range whose aligned
\* length is less than one whole minute fails with Other and never yields an
\* empty sequence.
C9_RangeChecks ==
    (op = "split" /\ Divides60(window)) =>
       LET d == CeilOfEnd - FloorOfStart IN
       /\ ret = Err("FrameTooLarge", "") <=> d >= 15 * 7 * 24 * 60 * 60 * SubPerSec
       /\ (d < 15 * 7 * 24 * 60 * 60 * SubPerSec /\ d < 60 * SubPerSec) =>
             ret = Err("Other", "range")
       /\ ret.kind = "Ok" => Len(time_frames) >= 1

C9_Witness ==
    /\ op = "split"
    /\ window = 60
    /\ CeilOfEnd - FloorOfStart = 15 * 7 * 24 * 60 * 60 * SubPerSec
    /\ ret = Err("FrameTooLarge", "")

\* C10: a successful split with aligned bounds s and e returns exactly
\* ceil((e - s in minutes) / w) elements, the i-th being
\* [s + i*w, s + (i+1)*w) with window w, so that the last one ends at e.
C10_WalkShape ==
    SplitOk =>
       LET s == FloorOfStart
           e == CeilOfEnd
           n == (NumMinutes(e - s) + window - 1) \div window
       IN /\ Len(time_frames) = n
          /\ \A i \in 1 .. Len(time_frames) :
                time_frames[i] =
                   EvenTimeframe(s + (i - 1) * Minutes(window), s + i * Minutes(window), window)
          /\ Last.frame.end = e

====
